---------------------------- MODULE Spec2Model ----------------------------
(***************************************************************************)
(* Model of common/utils.py of MahjongCopilot: the FPSCounter class, the   *)
(* blocking poll wait_for_file and the installer install_root_cert.        *)
(*                                                                         *)
(* Time.  time.time() is the variable now, counted in ticks of 0.1 s       *)
(* (TicksPerSec ticks to the second), so 1.0 s is Threshold = 10 ticks and *)
(* the 0.5 s sleep is SleepInterval = 5 ticks.  Differences of clock       *)
(* readings are exact in the model.                                        *)
(*                                                                         *)
(* Rates.  The float frame_count / elapsed_time is the exact fraction      *)
(* <<numerator, denominator>> in lowest terms with a positive denominator; *)
(* the initial integer 0 is <<0, 1>>.                                      *)
(***************************************************************************)
EXTENDS Integers, Sequences, FiniteSets

VARIABLES
    now,          \* the clock read by time.time(), in ticks
    \* ---- FPSCounter
    start_time,   \* self._start_time
    frame_count,  \* self._frame_count
    fps,          \* self._fps
    op,           \* the latest step: "init", "frame", "reset", "fps", "tick"
    ret,          \* value of the latest fps read since the latest frame(), or NoValue
    reset_since,  \* history: reset() was called since ret was read
    calls,        \* history: frame() calls since the latest window close, __init__ or reset
    closed_ever,  \* history: some frame() call has observed elapsed_time >= 1.0
    steady,       \* history: k >= 0 when the counter was built at t = 0 and exactly k
                  \* frame() calls followed, the i-th at t = i ticks; -1 otherwise
    \* ---- wait_for_file
    w_pc,         \* "exists" (line 94), "time" (line 95), "sleep" (line 97), "done"
    w_start,      \* start_time of wait_for_file
    w_timeout,    \* timeout, in ticks
    w_ret,        \* the returned bool as "True" or "False", "none" while running
    w_wake,       \* earliest clock value at which the running sleep may end
    w_poll,       \* clock value of the latest exists() test
    w_prev,       \* clock value read by the latest time test that went on to sleep, or -1
    w_seen,       \* what the latest exists() test returned
    file_exists,  \* pathlib.Path(file).exists()
    first_exist,  \* history: clock value at which the path first existed, or -1
    \* ---- install_root_cert
    platform,     \* sys.platform
    cert_file,    \* the argument
    c_pc,         \* "call", "ran", "returned", "raised"
    command,      \* argv[0] of the command run, or "" when none was run
    returncode,   \* result.returncode
    stdout,       \* result.stdout
    c_ret         \* the returned pair, NoValue when nothing was returned

fpsVars  == <<start_time, frame_count, fps, op, ret, reset_since, calls,
              closed_ever, steady>>
waitVars == <<w_pc, w_start, w_timeout, w_ret, w_wake, w_poll, w_prev, w_seen,
              file_exists, first_exist>>
certVars == <<platform, cert_file, c_pc, command, returncode, stdout, c_ret>>
vars     == <<now, fpsVars, waitVars, certVars>>

\* ------------------------------------------------------------------ bounds

\* latest clock value of the FPSCounter runs
MaxTime == 12
\* frame() is not called once frame_count has reached MaxFrames
MaxFrames == 10
\* latest clock value at which wait_for_file is called
MaxStart == 1
\* largest timeout of a wait_for_file call, in ticks
MaxTimeout == 11
\* most ticks by which one time.sleep(0.5) lasts longer than 0.5 s
MaxOversleep == 1
\* most ticks that pass between the exists() test and the time.time() of one
\* loop iteration
MaxLag == 1
\* largest exit status of the external command
MaxReturnCode == 3

\* ------------------------------------------------------------------ units

\* clock ticks to the second
TicksPerSec == 10
\* the 1.0 of "elapsed_time >= 1.0"
Threshold == 1 * TicksPerSec
\* the 0.5 of time.sleep(0.5)
SleepInterval == TicksPerSec \div 2

NoValue == <<>>
\* the integer 0 of __init__
Zero == <<0, 1>>

RECURSIVE GCD(_, _)
GCD(a, b) == IF b = 0 THEN a ELSE GCD(b, a % b)

Abs(x) == IF x < 0 THEN -x ELSE x

\* count / elapsed, elapsed in ticks and nonzero: events per second
Rate(count, elapsed) ==
    LET n == count * TicksPerSec
        d == Abs(elapsed)
        g == GCD(Abs(n), d)
        s == IF elapsed < 0 THEN -1 ELSE 1
    IN  <<(s * n) \div g, d \div g>>

\* --------------------------------------------------------------- FPSCounter

\* the variables of the other two functions, idle
WaitIdle ==
    /\ w_pc = "done" /\ w_start = 0 /\ w_timeout = 0 /\ w_ret = "none"
    /\ w_wake = 0 /\ w_poll = 0 /\ w_prev = -1 /\ w_seen = FALSE
    /\ file_exists = FALSE /\ first_exist = -1

CertIdle ==
    /\ platform = "" /\ cert_file = "" /\ c_pc = "returned" /\ command = ""
    /\ returncode = 0 /\ stdout = "" /\ c_ret = NoValue

\* FPSCounter.__init__ at clock value now
Init ==
    /\ now \in 0..MaxTime
    /\ start_time = now
    /\ frame_count = 0
    /\ fps = Zero
    /\ op = "init"
    /\ ret = NoValue
    /\ reset_since = FALSE
    /\ calls = 0
    /\ closed_ever = FALSE
    /\ steady = IF now = 0 THEN 0 ELSE -1
    /\ WaitIdle
    /\ CertIdle

\* the clock moves between calls: forward by any amount, or backward (a wall
\* clock that is set back)
Tick ==
    /\ \E t \in 0..MaxTime : t # now /\ now' = t
    /\ op' = "tick"
    /\ UNCHANGED <<start_time, frame_count, fps, ret, reset_since, calls,
                   closed_ever, steady>>
    /\ UNCHANGED <<waitVars, certVars>>

\* the history variables of a frame() call at the current clock value
FrameHistory ==
    /\ op' = "frame"
    /\ ret' = NoValue
    /\ reset_since' = FALSE
    /\ calls' = IF now - start_time >= Threshold THEN 0 ELSE calls + 1
    /\ closed_ever' = (closed_ever \/ now - start_time >= Threshold)
    /\ steady' = IF steady >= 0 /\ now = steady + 1 THEN steady + 1 ELSE -1

\* frame() whose test is on the size of elapsed_time, whatever its sign
frame_abs ==
    /\ frame_count < MaxFrames
    /\ LET count == frame_count + 1
           elapsed_time == now - start_time
       IN  IF Abs(elapsed_time) >= Threshold
           THEN /\ fps' = Rate(count, elapsed_time)
                /\ start_time' = now
                /\ frame_count' = 0
           ELSE /\ frame_count' = count
                /\ UNCHANGED <<fps, start_time>>
    /\ FrameHistory
    /\ UNCHANGED <<now, waitVars, certVars>>

\* frame() that recomputes the rate on every call with a positive elapsed_time
frame_eager ==
    /\ frame_count < MaxFrames
    /\ LET count == frame_count + 1
           elapsed_time == now - start_time
       IN  IF elapsed_time >= Threshold
           THEN /\ fps' = Rate(count, elapsed_time)
                /\ start_time' = now
                /\ frame_count' = 0
           ELSE /\ frame_count' = count
                /\ fps' = IF elapsed_time > 0 THEN Rate(count, elapsed_time) ELSE fps
                /\ UNCHANGED start_time
    /\ FrameHistory
    /\ UNCHANGED <<now, waitVars, certVars>>

\* frame() that closes the window without clearing frame_count
frame_keep ==
    /\ frame_count < MaxFrames
    /\ LET count == frame_count + 1
           elapsed_time == now - start_time
       IN  IF elapsed_time >= Threshold
           THEN /\ fps' = Rate(count, elapsed_time)
                /\ start_time' = now
                /\ frame_count' = count
           ELSE /\ frame_count' = count
                /\ UNCHANGED <<fps, start_time>>
    /\ FrameHistory
    /\ UNCHANGED <<now, waitVars, certVars>>

\* frame() that divides the count before the increment
frame_stale ==
    /\ frame_count < MaxFrames
    /\ LET count == frame_count + 1
           elapsed_time == now - start_time
       IN  IF elapsed_time >= Threshold
           THEN /\ fps' = Rate(frame_count, elapsed_time)
                /\ start_time' = now
                /\ frame_count' = 0
           ELSE /\ frame_count' = count
                /\ UNCHANGED <<fps, start_time>>
    /\ FrameHistory
    /\ UNCHANGED <<now, waitVars, certVars>>

\* FPSCounter.frame
frame ==
    /\ frame_count < MaxFrames
    /\ LET count == frame_count + 1
           elapsed_time == now - start_time
       IN  IF elapsed_time >= Threshold
           THEN /\ fps' = Rate(count, elapsed_time)
                /\ start_time' = now
                /\ frame_count' = 0
           ELSE /\ frame_count' = count
                /\ UNCHANGED <<fps, start_time>>
    /\ FrameHistory
    /\ UNCHANGED <<now, waitVars, certVars>>

\* reset() that leaves the computed rate in place
reset_keep_fps ==
    /\ start_time' = now
    /\ frame_count' = 0
    /\ UNCHANGED fps
    /\ op' = "reset"
    /\ reset_since' = TRUE
    /\ calls' = 0
    /\ steady' = -1
    /\ UNCHANGED <<ret, closed_ever>>
    /\ UNCHANGED <<now, waitVars, certVars>>

\* FPSCounter.reset: self.__init__()
reset ==
    /\ start_time' = now
    /\ frame_count' = 0
    /\ fps' = Zero
    /\ op' = "reset"
    /\ reset_since' = TRUE
    /\ calls' = 0
    /\ steady' = -1
    /\ UNCHANGED <<ret, closed_ever>>
    /\ UNCHANGED <<now, waitVars, certVars>>

\* an fps read that also starts a new window
fps_get_clear ==
    /\ ret' = fps
    /\ op' = "fps"
    /\ reset_since' = FALSE
    /\ fps' = Zero
    /\ UNCHANGED <<start_time, frame_count, calls, closed_ever, steady>>
    /\ UNCHANGED <<now, waitVars, certVars>>

\* the property FPSCounter.fps
fps_get ==
    /\ ret' = fps
    /\ op' = "fps"
    /\ reset_since' = FALSE
    /\ UNCHANGED <<start_time, frame_count, fps, calls, closed_ever, steady>>
    /\ UNCHANGED <<now, waitVars, certVars>>

Next == Tick \/ frame \/ reset \/ fps_get

Spec == Init /\ [][Next]_vars


\* ------------------------------------------------------------ wait_for_file

FpsIdle ==
    /\ start_time = 0 /\ frame_count = 0 /\ fps = Zero /\ op = "init"
    /\ ret = NoValue /\ reset_since = FALSE /\ calls = 0
    /\ closed_ever = FALSE /\ steady = -1

\* wait_for_file(file, timeout) is called: start_time = time.time()
WaitInit ==
    /\ now \in 0..MaxStart
    /\ w_start = now
    /\ w_timeout \in 0..MaxTimeout
    /\ w_pc = "exists"
    /\ w_ret = "none"
    /\ w_wake = 0
    /\ w_poll = now
    /\ w_prev = -1
    /\ w_seen = FALSE
    /\ file_exists \in BOOLEAN
    /\ first_exist = IF file_exists THEN now ELSE -1
    /\ FpsIdle
    /\ CertIdle

\* while not pathlib.Path(file).exists(): ... return True
CheckExists ==
    /\ w_pc = "exists"
    /\ w_poll' = now
    /\ w_seen' = file_exists
    /\ IF file_exists
       THEN w_pc' = "done" /\ w_ret' = "True"
       ELSE w_pc' = "time" /\ UNCHANGED w_ret
    /\ UNCHANGED <<now, w_start, w_timeout, w_wake, w_prev, file_exists, first_exist>>
    /\ UNCHANGED <<fpsVars, certVars>>

\* the timeout test with >= for >
CheckTime_ge ==
    /\ w_pc = "time"
    /\ IF now - w_start >= w_timeout
       THEN w_pc' = "done" /\ w_ret' = "False" /\ UNCHANGED <<w_wake, w_prev>>
       ELSE /\ w_pc' = "sleep"
            /\ w_wake' = now + SleepInterval
            /\ w_prev' = now
            /\ UNCHANGED w_ret
    /\ UNCHANGED <<now, w_start, w_timeout, w_poll, w_seen, file_exists, first_exist>>
    /\ UNCHANGED <<fpsVars, certVars>>

\* if time.time() - start_time > timeout: return False; else time.sleep(0.5)
CheckTime ==
    /\ w_pc = "time"
    /\ IF now - w_start > w_timeout
       THEN w_pc' = "done" /\ w_ret' = "False" /\ UNCHANGED <<w_wake, w_prev>>
       ELSE /\ w_pc' = "sleep"
            /\ w_wake' = now + SleepInterval
            /\ w_prev' = now
            /\ UNCHANGED w_ret
    /\ UNCHANGED <<now, w_start, w_timeout, w_poll, w_seen, file_exists, first_exist>>
    /\ UNCHANGED <<fpsVars, certVars>>

\* time.sleep(0.5) returns, no earlier than 0.5 s after it was called
Wake ==
    /\ w_pc = "sleep"
    /\ now >= w_wake
    /\ w_pc' = "exists"
    /\ UNCHANGED <<now, w_start, w_timeout, w_ret, w_wake, w_poll, w_prev, w_seen,
                   file_exists, first_exist>>
    /\ UNCHANGED <<fpsVars, certVars>>

\* the clock advances while the call sleeps (up to MaxOversleep past the 0.5 s)
\* and between the exists() test and the timeout test (up to MaxLag)
WaitTick ==
    /\ \/ w_pc = "sleep" /\ now < w_wake + MaxOversleep
       \/ w_pc = "time" /\ now < w_poll + MaxLag
    /\ now' = now + 1
    /\ UNCHANGED <<waitVars, fpsVars, certVars>>

\* another process creates the path
FileCreate ==
    /\ w_pc # "done"
    /\ ~file_exists
    /\ file_exists' = TRUE
    /\ first_exist' = IF first_exist = -1 THEN now ELSE first_exist
    /\ UNCHANGED <<now, w_pc, w_start, w_timeout, w_ret, w_wake, w_poll, w_prev, w_seen>>
    /\ UNCHANGED <<fpsVars, certVars>>

\* another process removes the path
FileDelete ==
    /\ w_pc # "done"
    /\ file_exists
    /\ file_exists' = FALSE
    /\ UNCHANGED <<now, w_pc, w_start, w_timeout, w_ret, w_wake, w_poll, w_prev, w_seen,
                   first_exist>>
    /\ UNCHANGED <<fpsVars, certVars>>

WaitNext == CheckExists \/ CheckTime \/ Wake \/ WaitTick \/ FileCreate \/ FileDelete

SpecWait == WaitInit /\ [][WaitNext]_vars

\* the thread running wait_for_file keeps being scheduled and the clock keeps
\* advancing
SpecWaitFair ==
    /\ SpecWait
    /\ WF_vars(CheckExists)
    /\ WF_vars(CheckTime)
    /\ WF_vars(Wake)
    /\ WF_vars(WaitTick)

\* -------------------------------------------------------- install_root_cert

Platforms == {"win32", "darwin", "linux"}
CertFiles == {"mitmproxy-ca-cert.cer", "other.pem"}
Outputs == {"", "CertUtil: -addstore command completed successfully.",
            "CertUtil: -addstore command FAILED", "Error reading file"}

\* install_root_cert(cert_file) is called
CertInit ==
    /\ platform \in Platforms
    /\ cert_file \in CertFiles
    /\ c_pc = "call"
    /\ command = ""
    /\ returncode = 0
    /\ stdout = ""
    /\ c_ret = NoValue
    /\ now = 0
    /\ FpsIdle
    /\ WaitIdle

\* sys.platform == "win32": subprocess.run([certutil ...], check=False)
RunCertutil ==
    /\ c_pc = "call"
    /\ platform = "win32"
    /\ \E rc \in 0..MaxReturnCode, out \in Outputs :
          /\ returncode' = rc
          /\ stdout' = out
    /\ command' = "certutil"
    /\ c_pc' = "ran"
    /\ UNCHANGED <<platform, cert_file, c_ret>>
    /\ UNCHANGED <<now, fpsVars, waitVars>>

\* sys.platform == "darwin": subprocess.run([sudo security ...], check=True),
\* which raises CalledProcessError when the exit status is not 0
RunSecurity ==
    /\ c_pc = "call"
    /\ platform = "darwin"
    /\ \E rc \in 0..MaxReturnCode, out \in Outputs :
          /\ returncode' = rc
          /\ stdout' = out
          /\ c_pc' = IF rc = 0 THEN "ran" ELSE "raised"
    /\ command' = "sudo"
    /\ UNCHANGED <<platform, cert_file, c_ret>>
    /\ UNCHANGED <<now, fpsVars, waitVars>>

\* any other platform: return False, ""
UnknownPlatform ==
    /\ c_pc = "call"
    /\ platform \notin {"win32", "darwin"}
    /\ c_ret' = <<FALSE, "">>
    /\ c_pc' = "returned"
    /\ UNCHANGED <<platform, cert_file, command, returncode, stdout>>
    /\ UNCHANGED <<now, fpsVars, waitVars>>

\* if result.returncode == 0: return True, stdout; else: return False, stdout
CheckResult ==
    /\ c_pc = "ran"
    /\ c_ret' = <<returncode = 0, stdout>>
    /\ c_pc' = "returned"
    /\ UNCHANGED <<platform, cert_file, command, returncode, stdout>>
    /\ UNCHANGED <<now, fpsVars, waitVars>>

CertNext == RunCertutil \/ RunSecurity \/ UnknownPlatform \/ CheckResult

SpecCert == CertInit /\ [][CertNext]_vars

\* ---------------------------------------------- wait_for_file: the claims

\* C7 as claimed: wait_for_file returns True only for a path that came into
\* existence before the timeout elapsed, counted from the start of the call,
\* and never returns False when an exists() test within the timeout found the
\* path.
C7_Original ==
    w_pc = "done" =>
        /\ w_ret = "True" =>
              first_exist # -1 /\ first_exist - w_start <= w_timeout
        /\ w_ret = "False" => ~w_seen

\* C10 as claimed: every call returns; it returns False when the path never
\* exists, and then no later than one 0.5 s poll interval after the timeout.
C10_Original ==
    /\ <>(w_pc = "done")
    /\ [](w_pc = "done" /\ first_exist = -1 => w_ret = "False")
    /\ [](w_pc = "done" /\ w_ret = "False" =>
            /\ now - w_start > w_timeout
            /\ now <= w_start + w_timeout + SleepInterval)

\* C10 amended: for a timeout >= 0 and a clock that keeps advancing every call
\* returns; when the path never exists it returns False; it returns False at
\* the first timeout test that reads an elapsed time strictly above timeout,
\* the test before it (if any) having read at most timeout, which is no later
\* than timeout plus one sleep of 0.5 s plus the time by which that sleep
\* overran and the time between the loop's exists() test and its clock read.
C10_TimeoutBounded ==
    /\ <>(w_pc = "done")
    /\ [](w_pc = "done" /\ first_exist = -1 => w_ret = "False")
    /\ [](w_pc = "done" /\ w_ret = "False" =>
            /\ now - w_start > w_timeout
            /\ w_prev # -1 => w_prev - w_start <= w_timeout
            /\ w_prev # -1 => now <= w_prev + SleepInterval + MaxOversleep + MaxLag
            /\ now <= w_start + w_timeout + SleepInterval + MaxOversleep + MaxLag)

\* C10 witness: a call with a timeout of 1.0 s returned False for a path that
\* never existed, after at least two sleeps
C10_Witness ==
    /\ w_pc = "done" /\ w_ret = "False" /\ first_exist = -1
    /\ w_timeout = Threshold /\ w_prev >= w_start + 2 * SleepInterval

\* ------------------------------------------ install_root_cert: the claims

\* C8 as claimed: install_root_cert never raises and returns (True, stdout)
\* when the command exits with 0, (False, stdout) when it exits with another
\* status, and (False, "") with no command run on an unsupported platform.
C8_Original ==
    /\ c_pc # "raised"
    /\ c_pc = "returned" =>
          /\ command = "" <=> platform \notin {"win32", "darwin"}
          /\ c_ret = IF command = "" THEN <<FALSE, "">>
                     ELSE <<returncode = 0, stdout>>

\* ------------------------------------------------------- FPSCounter: claims

\* what one frame() call at clock value now does to the three fields
FrameContract ==
    LET elapsed == now - start_time
    IN  IF elapsed >= Threshold
        THEN /\ fps' = Rate(frame_count + 1, elapsed)
             /\ start_time' = now
             /\ frame_count' = 0
        ELSE /\ frame_count' = frame_count + 1
             /\ fps' = fps
             /\ start_time' = start_time

C2_Original == [][fps' # fps => now - start_time >= Threshold]_vars

\* C2 amended: fps changes only in a frame() call that observes
\* elapsed >= 1.0, or in a reset(), which sets it to 0 whatever the elapsed
\* time; every other step keeps the last computed value.
C2_RateChangesOnlyOnCloseOrReset ==
    [][fps' # fps =>
          \/ op' = "frame" /\ now - start_time >= Threshold
          \/ op' = "reset" /\ fps' = Zero]_vars

\* C2 witness: a frame() call with elapsed < 1.0 kept a computed nonzero rate
C2_Witness ==
    /\ op = "frame" /\ fps # Zero /\ frame_count > 0
    /\ now - start_time < Threshold

\* C3: reset() leaves start_time = now, frame_count = 0 and fps = 0, as
\* __init__ does, and an fps read right after it returns 0.
C3_ResetReinitializes ==
    [][/\ op' = "reset" =>
            /\ start_time' = now' /\ now' = now
            /\ frame_count' = 0
            /\ fps' = Zero
       /\ (op = "reset" /\ op' = "fps") => ret' = Zero]_vars

\* C3 witness: fps was read as 0 right after a reset() that followed a window
\* close and a read of the nonzero rate
C3_Witness ==
    /\ op = "fps" /\ ret = Zero /\ closed_ever
    /\ start_time = now /\ frame_count = 0

\* C4: fps is 0 until a frame() call has observed elapsed >= 1.0: before any
\* frame() call, with no frame() call however far the clock moves, and after
\* frame() calls with elapsed < 1.0.
C4_ZeroUntilFirstClose == ~closed_ever => fps = Zero

\* C4 witness: one frame() call at t = 0.5 on a counter built at t = 0
C4_Witness ==
    /\ op = "frame" /\ steady = -1 /\ ~closed_ever
    /\ start_time = 0 /\ now = 5 /\ frame_count = 1 /\ calls = 1

\* C5: fps is never negative
C5_RateNonNegative == fps[1] >= 0 /\ fps[2] > 0

\* C5 witness: a rate has been computed and the clock now reads less than
\* start_time (it was set back)
C5_Witness == fps[1] > 0 /\ now + Threshold <= start_time /\ op = "frame"

\* C6 as claimed: an fps read changes no field, and two fps reads with no
\* frame() call between them return the same value
C6_Original ==
    [][op' = "fps" =>
          /\ UNCHANGED <<start_time, frame_count, fps>>
          /\ ret # NoValue => ret' = ret]_vars

\* C6 amended: an fps read changes no field, and two fps reads with neither a
\* frame() call nor a reset() call between them return the same value.
C6_ReadOnlyAccessor ==
    [][op' = "fps" =>
          /\ UNCHANGED <<start_time, frame_count, fps>>
          /\ (ret # NoValue /\ ~reset_since) => ret' = ret]_vars

\* C6 witness: a computed nonzero rate was read in the middle of a later window
C6_Witness == op = "fps" /\ ret # Zero /\ ret = fps /\ now # start_time /\ frame_count > 0

\* C9: frame_count >= 0 and equals the number of frame() calls since the
\* latest window close, or since __init__ or reset() when none has closed
\* since; it is 0 right after every window close.
C9_CountSinceClose ==
    /\ [](frame_count >= 0 /\ frame_count = calls)
    /\ [][(op' = "frame" /\ now - start_time >= Threshold) => frame_count' = 0]_vars

\* C9 witness: three frame() calls counted in a window that follows a close
C9_Witness == closed_ever /\ fps # Zero /\ frame_count = 3 /\ op = "frame"

=============================================================================
